---- MODULE Spec2Model ----
(***************************************************************************)
(* git-mirror: the ref-synchronisation engine of src/git_mirror.py.        *)
(*                                                                         *)
(* Repo.update_mirrors (propagateToMirrors) and                            *)
(* Repo.update_ref_from_mirror (applyFromMirror) are modelled statement by *)
(* statement: one action per git command or os.chdir, so that invocations  *)
(* interleave exactly where two processes running the script can.          *)
(* One ref per repository is tracked (every call names one ref).  The git  *)
(* commands themselves are the environment of the script: their effect on  *)
(* refs and object stores is modelled at the call sites.                   *)
(***************************************************************************)
EXTENDS Integers, Sequences, FiniteSets, TLC

\* ------------------------------------------------------------------ bounds
MaxCommit == 3
NumMirrors == 2
MaxRedeliveries == 1
MaxExternal == 1

\* ------------------------------------------------------- program constants
\* git_nullsha = 40*"0": the SHA that stands for "ref does not exist".
git_nullsha == 0
\* The length update_mirrors asserts of both SHAs.
ShaLength == 40

\* ------------------------------------------------------------- environment
\* Commits form a tree: commit c has parent c \div 2 (1 is the root).
Commits == 1..MaxCommit
SHAs == {git_nullsha} \cup Commits
\* The commit of somebody who pushes to a copy directly, past the hooks
Outsider == MaxCommit
\* An argument that is not a SHA: a string of another length than 40
BadSHA == MaxCommit + 1
\* What a caller can hand in as a SHA
ArgSHAs == SHAs \cup {BadSHA}
Mirrors == 1..NumMirrors
Repos == {"r1", "r2"}
Workers == {"w1", "w2"}
Hosts == {"h1", "h2"}
NoDir == "/"

\* len(sha) of a value handed in as a SHA
ShaLen(s) == IF s \in SHAs THEN ShaLength ELSE ShaLength - 1

RECURSIVE IsAncestor(_, _)
\* git merge-base --is-ancestor a b (both commits present)
IsAncestor(a, b) ==
    IF a = b THEN TRUE
    ELSE IF b <= 1 THEN FALSE
    ELSE IsAncestor(a, b \div 2)

\* The commits reachable from s (empty for the null SHA)
Reachable(s) == {c \in Commits : s \in Commits /\ IsAncestor(c, s)}

VARIABLES
    localRef,    \* localRef[r]: the ref's value in repository r's local copy
    objects,     \* objects[r]: the commits present in r's local object store
    mirrorRef,   \* mirrorRef[r][m]: the ref's value at the URL self.mirrors[m] of r
    cwd,         \* cwd[h]: the working directory of host process h (os.chdir)
    deployed,    \* the workers the host runs
    self,        \* self[w]: the Repo object worker w's calls are made on
    proc,        \* proc[w]: the host process worker w runs in
    pc,          \* pc[w]: worker w's position in the code
    args,        \* args[w]: the arguments of w's current call
    local_sha,   \* local_sha[w]: the local variable of update_ref_from_mirror
    is_forced,   \* is_forced[w]: the local variable of update_mirrors
    except_mirrors, \* except_mirrors[w]: the parameter of update_mirrors
    todo,        \* todo[w]: the next mirror of the loop of update_mirrors
    err,         \* err[w]: what ended w's call ("" while running or on success)
    log,         \* log[w]: the git commands w's current call has run, in order
    snap,        \* snap[w]: the refs of self[w] when w's current call started
    alone,       \* alone[w]: nobody else changed a ref since w's call started
    prev,        \* prev[w]: how w's previous call with these arguments ended
    nredeliveries, \* events delivered again so far
    nexternal    \* direct pushes by outside actors so far

vars == <<localRef, objects, mirrorRef, cwd, deployed, self, proc, pc, args, local_sha,
          is_forced, except_mirrors, todo, err, log, snap, alone, prev, nredeliveries,
          nexternal>>

\* What no step inside a call changes
callVars == <<deployed, self, proc, args, snap, prev, nredeliveries, nexternal>>

\* ---------------------------------------------------------- git commands
\* One entry of log[w]: the command, the repository it ran in (the working
\* directory of the process), the mirror it addressed (0: none), the SHA it
\* was given (the SHA pushed, the expected old value), whether --force was
\* given, the value the ref it addressed had when it ran, and its exit code.
Entry(op, repo, mirror, sha, force, found, code) ==
    [op |-> op, repo |-> repo, mirror |-> mirror, sha |-> sha, force |-> force,
     found |-> found, code |-> code]

Logged(w, e) == [log EXCEPT ![w] = Append(@, e)]

\* Exit code of a git command that could not do its work at all
ToolFailure == 128

\* The git commands w's current call has run
Ops(w) == {log[w][i].op : i \in 1..Len(log[w])}

\* Every git command of w's current call answered.
NoToolFailure(w) == \A i \in 1..Len(log[w]) : log[w][i].code # ToolFailure

\* The other workers stop being alone once w has changed a ref.
Disturbed(w) == [v \in Workers |-> IF v = w THEN alone[v] ELSE FALSE]

\* The repository the git commands of worker w run in: the working directory
\* of w's process, as left by the last os.chdir of any thread of it.
Here(w) == cwd[proc[w]]

\* git push [--force] <url> <newsha>:<ref> from a repository whose object
\* store is `store`, the remote ref being at `remote`: whether the remote
\* accepts.  A null <newsha> deletes the remote ref, which no fast-forward
\* rule forbids; anything else needs the object, and without --force a
\* remote ref that is absent or an ancestor of <newsha>.
PushAccepted(remote, newsha, force, store) ==
    IF newsha = git_nullsha THEN TRUE
    ELSE /\ newsha \in store
         /\ (force \/ remote = git_nullsha \/ IsAncestor(remote, newsha))

\* (faulty variant) git update-ref without the expected old value: the write is forced
CasAccepted_Forced(current, newsha, expected, store) ==
    newsha = git_nullsha \/ newsha \in store

\* git update-ref <ref> <newsha> <expected>, and git update-ref -d <ref>
\* <expected> (newsha null): whether the compare-and-swap goes through.
CasAccepted(current, newsha, expected, store) ==
    /\ current = expected
    /\ (newsha = git_nullsha \/ newsha \in store)

\* The exit code of git merge-base --is-ancestor <oldsha> <newsha>
MergeBaseCode(oldsha, newsha, store) ==
    IF oldsha \in store /\ newsha \in store
    THEN (IF IsAncestor(oldsha, newsha) THEN 0 ELSE 1)
    ELSE ToolFailure

\* ------------------------------------------------- the code's own decisions
\* line 86: assert len(oldsha) == 40 and len(newsha) == 40
ValidShas(oldsha, newsha) == ShaLen(oldsha) = ShaLength /\ ShaLen(newsha) = ShaLength

\* (faulty variant) the ancestor test is run for every event
NeedsAncestorTest_Always(oldsha, newsha) == TRUE

\* line 89, first two conjuncts: only then is git_is_forced_update called
NeedsAncestorTest(oldsha, newsha) == newsha # git_nullsha /\ oldsha # git_nullsha

\* line 26: assert not out
AncestorOutputOk(out) == ~out

\* (faulty variant) any exit code of the ancestor test is taken for an answer
AncestorCodeOk_Any(code) == TRUE

\* line 27: assert code in (0, 1)
AncestorCodeOk(code) == code \in {0, 1}

\* (faulty variant) the result of the ancestor test read the wrong way round
git_is_forced_update_Inverted(code) == IF code = 0 THEN TRUE ELSE FALSE

\* line 28: return False if code == 0 else True
git_is_forced_update(code) == IF code = 0 THEN FALSE ELSE TRUE

\* (faulty variant) no mirror is skipped
Skipped_Never(mirror, except) == FALSE

\* line 92: if mirror in except_mirrors: continue
Skipped(mirror, except) == mirror \in except

\* (faulty variant) every push is forced
PushForce_Always(forced) == TRUE

\* lines 95-100: --force exactly when is_forced
PushForce(forced) == forced

\* lines 108-111: the SHA of the first line of git ls-remote, or git_nullsha
RemoteSha(remote_state) == IF remote_state # git_nullsha THEN remote_state ELSE git_nullsha

\* (faulty variant) the check of the remote claim is left out
RemoteClaimOk_Unchecked(newsha, remote_sha) == TRUE

\* line 112: assert newsha == remote_sha
RemoteClaimOk(newsha, remote_sha) == newsha = remote_sha

\* (faulty variant) a local state that matches neither SHA is let through
LocalStateOk_Unchecked(lsha, oldsha, newsha) == TRUE

\* line 121: assert local_sha in (oldsha, newsha)
LocalStateOk(lsha, oldsha, newsha) == lsha \in {oldsha, newsha}

\* (faulty variant) the return of line 124 is never taken
AlreadyApplied_Never(lsha, newsha) == FALSE

\* (faulty variant) the return of line 124 is not taken for a ref that is absent
AlreadyApplied_UnlessAbsent(lsha, newsha) == lsha = newsha /\ lsha # git_nullsha

\* line 123: if local_sha == newsha: return
AlreadyApplied(lsha, newsha) == lsha = newsha

\* (faulty variant) the delete branch is taken for every event
IsUpdate_Never(newsha) == FALSE

\* line 126: if newsha != git_nullsha (fetch and update) else (delete)
IsUpdate(newsha) == newsha # git_nullsha

\* (faulty variant) git update-ref is told to expect a ref that does not exist
ExpectedOld_Null(lsha) == git_nullsha

\* lines 134 and 138: the expected old value handed to git update-ref
ExpectedOld(lsha) == lsha

\* line 137: assert local_sha != git_nullsha
DeleteAssertOk(lsha) == lsha # git_nullsha

\* (faulty variant) update_mirrors is called without the mirror to skip
SkipOrigin_None(mirror) == {}

\* line 140: the mirrors update_ref_from_mirror tells update_mirrors to skip
SkipOrigin(mirror) == {mirror}

\* ------------------------------------------------------------------- Init
\* The object stores a local repository at s can have: what s reaches, and
\* possibly commits that an earlier value of the ref reached.
Stores(s) == {Reachable(s) \cup Reachable(t) : t \in SHAs}

\* Where the ref is in every copy of a repository: everywhere at s, except
\* that one copy (0: the local one, m: mirror m) has been moved on to t.
Moved(copy, at, s, t) == IF copy = at THEN t ELSE s

\* The state the workers start in, but for the deployment.
InitRefs ==
    /\ \E s \in SHAs, t \in SHAs, at \in {0} \cup Mirrors : \E store \in Stores(s) :
        /\ localRef = [r \in Repos |-> Moved(0, at, s, t)]
        /\ objects = [r \in Repos |-> store \cup Reachable(Moved(0, at, s, t))]
        /\ mirrorRef = [r \in Repos |-> [m \in Mirrors |-> Moved(m, at, s, t)]]
        /\ snap = [w \in Workers |-> [local |-> Moved(0, at, s, t),
                                     mirrors |-> [m \in Mirrors |-> Moved(m, at, s, t)]]]
    /\ cwd = [h \in Hosts |-> NoDir]
    /\ pc = [w \in Workers |-> "idle"]
    /\ args = [w \in Workers |-> [fn |-> "", oldsha |-> git_nullsha,
                                 newsha |-> git_nullsha, mirror |-> 0]]
    /\ local_sha = [w \in Workers |-> git_nullsha]
    /\ is_forced = [w \in Workers |-> FALSE]
    /\ except_mirrors = [w \in Workers |-> {}]
    /\ todo = [w \in Workers |-> 1]
    /\ err = [w \in Workers |-> ""]
    /\ log = [w \in Workers |-> <<>>]
    /\ alone = [w \in Workers |-> TRUE]
    /\ prev = [w \in Workers |-> [outcome |-> "idle", alone |-> TRUE, clean |-> TRUE,
                                 ops |-> {}]]
    /\ nredeliveries = 0
    /\ nexternal = 0

\* One worker on one repository: the host serialises the events of a ref.
Init ==
    /\ InitRefs
    /\ deployed = {"w1"}
    /\ self = [w \in Workers |-> "r1"]
    /\ proc = [w \in Workers |-> IF w = "w1" THEN "h1" ELSE "h2"]

\* ------------------------------------------------------------ call and return
Resting(w) == pc[w] \in {"idle", "done", "failed"}

\* The entry point of each method
First(fn) == IF fn = "update_mirrors" THEN "um_enter" ELSE "urfm_enter"

\* A call starts: the frame of the method is fresh.
Enter(w, fn, oldsha, newsha, mirror, except) ==
    /\ args' = [args EXCEPT ![w] = [fn |-> fn, oldsha |-> oldsha, newsha |-> newsha,
                                    mirror |-> mirror]]
    /\ except_mirrors' = [except_mirrors EXCEPT ![w] = except]
    /\ local_sha' = [local_sha EXCEPT ![w] = git_nullsha]
    /\ is_forced' = [is_forced EXCEPT ![w] = FALSE]
    /\ todo' = [todo EXCEPT ![w] = 1]
    /\ err' = [err EXCEPT ![w] = ""]
    /\ log' = [log EXCEPT ![w] = <<>>]
    /\ snap' = [snap EXCEPT ![w] = [local |-> localRef[self[w]],
                                    mirrors |-> mirrorRef[self[w]]]]
    /\ alone' = [alone EXCEPT ![w] = TRUE]
    /\ pc' = [pc EXCEPT ![w] = First(fn)]
    /\ UNCHANGED <<localRef, objects, mirrorRef, cwd, deployed, self, proc, nexternal>>

\* A caller (the hook or the webhook) invokes a method on Repo self[w].
Call(w, fn, oldsha, newsha, mirror, except) ==
    /\ w \in deployed
    /\ pc[w] = "idle"
    /\ Enter(w, fn, oldsha, newsha, mirror, except)
    /\ UNCHANGED <<prev, nredeliveries>>

\* update_mirrors(ref, oldsha, newsha, except_mirrors)
CallUpdateMirrors(w) ==
    \E oldsha \in SHAs, newsha \in SHAs, except \in SUBSET Mirrors :
        Call(w, "update_mirrors", oldsha, newsha, 0, except)

\* update_ref_from_mirror(ref, oldsha, newsha, mirror)
CallUpdateRefFromMirror(w) ==
    \E oldsha \in SHAs, newsha \in SHAs, mirror \in Mirrors :
        Call(w, "update_ref_from_mirror", oldsha, newsha, mirror, {})

\* The webhook of a mirror reports a push it has received: the ref of that
\* mirror is at newsha now; what it was before is the sender's word.
CallFromWebhook(w) ==
    \E oldsha \in SHAs, mirror \in Mirrors :
        Call(w, "update_ref_from_mirror", oldsha, mirrorRef[self[w]][mirror], mirror, {})

\* The webhook delivers the same event again: an identical second call of
\* update_ref_from_mirror.
Redeliver(w) ==
    /\ pc[w] \in {"done", "failed"}
    /\ args[w].fn = "update_ref_from_mirror"
    /\ nredeliveries < MaxRedeliveries
    /\ nredeliveries' = nredeliveries + 1
    /\ prev' = [prev EXCEPT ![w] = [outcome |-> pc[w], alone |-> alone[w],
                                    clean |-> NoToolFailure(w), ops |-> Ops(w)]]
    /\ Enter(w, args[w].fn, args[w].oldsha, args[w].newsha, args[w].mirror, {})

\* (faulty variant) the exception is swallowed: the call returns normally
Raise_Swallowed(w, what) ==
    /\ pc' = [pc EXCEPT ![w] = "done"]
    /\ err' = [err EXCEPT ![w] = ""]

\* An exception or a failed assertion ends the call.
Raise(w, what) ==
    /\ pc' = [pc EXCEPT ![w] = "failed"]
    /\ err' = [err EXCEPT ![w] = what]

Goto(w, label) ==
    /\ pc' = [pc EXCEPT ![w] = label]
    /\ UNCHANGED err

\* The exit code of a git command: 128 when the tool itself fails (network,
\* disk, a broken repository), else 0 or 1 as the command decides.
ExitCode(toolfail, accepted) == IF toolfail THEN ToolFailure ELSE IF accepted THEN 0 ELSE 1

\* --------------------------------------------------------- update_mirrors
\* lines 86-87: the assertion on the SHAs, then os.chdir(self.local)
UmEnter(w) ==
    /\ pc[w] = "um_enter"
    /\ IF ValidShas(args[w].oldsha, args[w].newsha)
       THEN /\ cwd' = [cwd EXCEPT ![proc[w]] = self[w]]
            /\ Goto(w, "um_classify")
       ELSE /\ Raise(w, "assert: not valid SHAs")
            /\ UNCHANGED cwd
    /\ UNCHANGED <<localRef, objects, mirrorRef, local_sha, is_forced,
                   except_mirrors, todo, log, alone>>
    /\ UNCHANGED callVars

\* line 89 without the call: a null SHA on either side is no forced update
UmClassifyNull(w) ==
    /\ pc[w] = "um_classify"
    /\ ~NeedsAncestorTest(args[w].oldsha, args[w].newsha)
    /\ is_forced' = [is_forced EXCEPT ![w] = FALSE]
    /\ Goto(w, "um_push")
    /\ UNCHANGED <<localRef, objects, mirrorRef, cwd, local_sha,
                   except_mirrors, todo, log, alone>>
    /\ UNCHANGED callVars

\* line 89 with the call of git_is_forced_update (lines 25-28): git merge-base
\* --is-ancestor (unchecked) answers with exit code 0 or 1 and no output;
\* failure: the tool fails (128); garbage: it prints something on stdout.
UmClassifyTest(w) ==
    /\ pc[w] = "um_classify"
    /\ NeedsAncestorTest(args[w].oldsha, args[w].newsha)
    /\ \E outcome \in {"answer", "failure", "garbage"} :
        LET code == IF outcome = "failure" THEN ToolFailure
                    ELSE MergeBaseCode(args[w].oldsha, args[w].newsha, objects[Here(w)])
            out == outcome = "garbage"
        IN /\ log' = Logged(w, Entry("merge-base", Here(w), 0, args[w].newsha, FALSE,
                                      localRef[Here(w)], code))
           /\ IF ~AncestorOutputOk(out)
              THEN /\ Raise(w, "assert: not out")
                   /\ UNCHANGED is_forced
              ELSE IF AncestorCodeOk(code)
              THEN /\ is_forced' = [is_forced EXCEPT ![w] = git_is_forced_update(code)]
                   /\ Goto(w, "um_push")
              ELSE /\ Raise(w, "assert: code in (0, 1)")
                   /\ UNCHANGED is_forced
    /\ UNCHANGED <<localRef, objects, mirrorRef, cwd, local_sha,
                   except_mirrors, todo, alone>>
    /\ UNCHANGED callVars

\* lines 91-93: the next mirror is in except_mirrors
UmSkip(w) ==
    /\ pc[w] = "um_push"
    /\ todo[w] <= NumMirrors
    /\ Skipped(todo[w], except_mirrors[w])
    /\ todo' = [todo EXCEPT ![w] = @ + 1]
    /\ UNCHANGED <<localRef, objects, mirrorRef, cwd, pc, local_sha, is_forced,
                   except_mirrors, err, log, alone>>
    /\ UNCHANGED callVars

\* (faulty variant) a failed push puts the local ref back to oldsha before raising
UmPush_Rollback(w) ==
    /\ pc[w] = "um_push"
    /\ todo[w] <= NumMirrors
    /\ ~Skipped(todo[w], except_mirrors[w])
    /\ \E toolfail \in BOOLEAN :
        LET m == todo[w]
            r == self[w]
            force == PushForce(is_forced[w])
            code == ExitCode(toolfail, PushAccepted(mirrorRef[r][m], args[w].newsha,
                                                    force, objects[Here(w)]))
        IN /\ log' = Logged(w, Entry("push", Here(w), m, args[w].newsha, force,
                                      mirrorRef[r][m], code))
           /\ IF code = 0
              THEN /\ mirrorRef' = [mirrorRef EXCEPT ![r][m] = args[w].newsha]
                   /\ alone' = IF mirrorRef[r][m] # args[w].newsha
                               THEN Disturbed(w) ELSE alone
                   /\ todo' = [todo EXCEPT ![w] = @ + 1]
                   /\ UNCHANGED <<pc, err, localRef>>
              ELSE /\ Raise(w, "git push")
                   /\ localRef' = [localRef EXCEPT ![Here(w)] = args[w].oldsha]
                   /\ UNCHANGED <<mirrorRef, alone, todo>>
    /\ UNCHANGED <<objects, cwd, local_sha, is_forced, except_mirrors>>
    /\ UNCHANGED callVars

\* lines 94-100: git push to the next mirror; a failed push raises (check)
UmPush(w) ==
    /\ pc[w] = "um_push"
    /\ todo[w] <= NumMirrors
    /\ ~Skipped(todo[w], except_mirrors[w])
    /\ \E toolfail \in BOOLEAN :
        LET m == todo[w]
            r == self[w]
            force == PushForce(is_forced[w])
            code == ExitCode(toolfail, PushAccepted(mirrorRef[r][m], args[w].newsha,
                                                    force, objects[Here(w)]))
        IN /\ log' = Logged(w, Entry("push", Here(w), m, args[w].newsha, force,
                                      mirrorRef[r][m], code))
           /\ IF code = 0
              THEN /\ mirrorRef' = [mirrorRef EXCEPT ![r][m] = args[w].newsha]
                   /\ alone' = IF mirrorRef[r][m] # args[w].newsha
                               THEN Disturbed(w) ELSE alone
                   /\ todo' = [todo EXCEPT ![w] = @ + 1]
                   /\ UNCHANGED <<pc, err>>
              ELSE /\ Raise(w, "git push")
                   /\ UNCHANGED <<mirrorRef, alone, todo>>
    /\ UNCHANGED <<localRef, objects, cwd, local_sha, is_forced, except_mirrors>>
    /\ UNCHANGED callVars

\* line 100, loop exhausted: update_mirrors returns (and so does its caller)
UmReturn(w) ==
    /\ pc[w] = "um_push"
    /\ todo[w] > NumMirrors
    /\ Goto(w, "done")
    /\ UNCHANGED <<localRef, objects, mirrorRef, cwd, local_sha, is_forced,
                   except_mirrors, todo, log, alone>>
    /\ UNCHANGED callVars

\* ------------------------------------------------- update_ref_from_mirror
\* lines 104-105: os.chdir(self.local); url = self.mirrors[mirror]
UrfmEnter(w) ==
    /\ pc[w] = "urfm_enter"
    /\ cwd' = [cwd EXCEPT ![proc[w]] = self[w]]
    /\ Goto(w, "urfm_ls_remote")
    /\ UNCHANGED <<localRef, objects, mirrorRef, local_sha, is_forced,
                   except_mirrors, todo, log, alone>>
    /\ UNCHANGED callVars

\* lines 107-112: git ls-remote url ref, and the check of the claimed newsha
UrfmLsRemote(w) ==
    /\ pc[w] = "urfm_ls_remote"
    /\ \E toolfail \in BOOLEAN :
        LET remote_sha == RemoteSha(mirrorRef[self[w]][args[w].mirror])
        IN IF toolfail
           THEN /\ log' = Logged(w, Entry("ls-remote", Here(w), args[w].mirror, git_nullsha,
                                          FALSE, mirrorRef[self[w]][args[w].mirror], ToolFailure))
                /\ Raise(w, "git ls-remote")
           ELSE /\ log' = Logged(w, Entry("ls-remote", Here(w), args[w].mirror, remote_sha,
                                          FALSE, mirrorRef[self[w]][args[w].mirror], 0))
                /\ IF RemoteClaimOk(args[w].newsha, remote_sha)
                   THEN Goto(w, "urfm_show_ref")
                   ELSE Raise(w, "assert: lied about the new SHA")
    /\ UNCHANGED <<localRef, objects, mirrorRef, cwd, local_sha, is_forced,
                   except_mirrors, todo, alone>>
    /\ UNCHANGED callVars

\* lines 114-126: git show-ref ref (unchecked), the check of the local
\* state, the return when the update is already there, and the branch.
\* git show-ref exits 0 and prints the SHA of a ref that exists, exits 1
\* and prints nothing for one that does not; when the tool itself fails it
\* exits 128, its message on stderr (garbage: something on stdout too).
UrfmShowRef(w) ==
    /\ pc[w] = "urfm_show_ref"
    /\ \E outcome \in {"answer", "failure", "garbage"} :
        LET current == localRef[Here(w)]
            code == IF outcome = "answer"
                    THEN (IF current # git_nullsha THEN 0 ELSE 1)
                    ELSE ToolFailure
            hasOutput == (outcome = "answer" /\ current # git_nullsha) \/ outcome = "garbage"
            lsha == IF code = 0 THEN current ELSE git_nullsha
        IN /\ log' = Logged(w, Entry("show-ref", Here(w), 0, lsha, FALSE, current, code))
           /\ IF code # 0 /\ hasOutput
              THEN /\ Raise(w, "show-ref went wrong")
                   /\ UNCHANGED local_sha
              ELSE /\ local_sha' = [local_sha EXCEPT ![w] = lsha]
                   /\ IF ~LocalStateOk(lsha, args[w].oldsha, args[w].newsha)
                      THEN Raise(w, "assert: lied about the old SHA")
                      ELSE IF AlreadyApplied(lsha, args[w].newsha)
                      THEN Goto(w, "done")
                      ELSE IF IsUpdate(args[w].newsha)
                      THEN Goto(w, "urfm_fetch")
                      ELSE Goto(w, "urfm_delete")
    /\ UNCHANGED <<localRef, objects, mirrorRef, cwd, is_forced,
                   except_mirrors, todo, alone>>
    /\ UNCHANGED callVars

\* line 132: git fetch url ref, which stores the objects of the remote ref
\* and touches no local ref; it fails when the remote ref is gone
UrfmFetch(w) ==
    /\ pc[w] = "urfm_fetch"
    /\ \E toolfail \in BOOLEAN :
        LET remote == mirrorRef[self[w]][args[w].mirror]
            code == ExitCode(toolfail, remote # git_nullsha)
        IN /\ log' = Logged(w, Entry("fetch", Here(w), args[w].mirror, remote, FALSE, remote, code))
           /\ IF code = 0
              THEN /\ objects' = [objects EXCEPT ![Here(w)] = @ \cup Reachable(remote)]
                   /\ Goto(w, "urfm_update_ref")
              ELSE /\ Raise(w, "git fetch")
                   /\ UNCHANGED objects
    /\ UNCHANGED <<localRef, mirrorRef, cwd, local_sha, is_forced,
                   except_mirrors, todo, alone>>
    /\ UNCHANGED callVars

\* git update-ref ref newsha expected / git update-ref -d ref expected, and on
\* success the call of update_mirrors of line 140
UpdateRef(w, op) ==
    \E toolfail \in BOOLEAN :
        LET expected == ExpectedOld(local_sha[w])
            code == ExitCode(toolfail, CasAccepted(localRef[Here(w)], args[w].newsha,
                                                   expected, objects[Here(w)]))
        IN /\ log' = Logged(w, Entry(op, Here(w), 0, expected, FALSE, localRef[Here(w)], code))
           /\ IF code = 0
              THEN /\ localRef' = [localRef EXCEPT ![Here(w)] = args[w].newsha]
                   /\ alone' = Disturbed(w)
                   /\ except_mirrors' = [except_mirrors EXCEPT ![w] = SkipOrigin(args[w].mirror)]
                   /\ Goto(w, "um_enter")
              ELSE /\ Raise(w, "git update-ref")
                   /\ UNCHANGED <<localRef, alone, except_mirrors>>

\* line 134
UrfmUpdateRef(w) ==
    /\ pc[w] = "urfm_update_ref"
    /\ UpdateRef(w, "update-ref")
    /\ UNCHANGED <<objects, mirrorRef, cwd, local_sha, is_forced, todo>>
    /\ UNCHANGED callVars

\* lines 137-138
UrfmDelete(w) ==
    /\ pc[w] = "urfm_delete"
    /\ IF DeleteAssertOk(local_sha[w])
       THEN UpdateRef(w, "update-ref -d")
       ELSE /\ Raise(w, "assert: nothing to do")
            /\ UNCHANGED <<localRef, alone, except_mirrors, log>>
    /\ UNCHANGED <<objects, mirrorRef, cwd, local_sha, is_forced, todo>>
    /\ UNCHANGED callVars

\* ----------------------------------------------------------- other actors
InUse == {self[w] : w \in deployed}

\* A direct push races with a call that is running.
Racing == \E w \in deployed : ~Resting(w)

\* Somebody pushes to the local repository directly.
ExternalPushLocal ==
    /\ nexternal < MaxExternal
    /\ Racing
    /\ \E r \in InUse, s \in {Outsider} :
        /\ s # localRef[r]
        /\ localRef' = [localRef EXCEPT ![r] = s]
        /\ objects' = [objects EXCEPT ![r] = @ \cup Reachable(s)]
    /\ nexternal' = nexternal + 1
    /\ alone' = [w \in Workers |-> FALSE]
    /\ UNCHANGED <<mirrorRef, cwd, self, proc, pc, args, local_sha, is_forced,
                   except_mirrors, todo, err, log, snap, prev, nredeliveries, deployed>>

\* Somebody pushes to a mirror directly.
ExternalPushMirror ==
    /\ nexternal < MaxExternal
    /\ Racing
    /\ \E r \in InUse, m \in Mirrors, s \in {Outsider} :
        /\ s # mirrorRef[r][m]
        /\ mirrorRef' = [mirrorRef EXCEPT ![r][m] = s]
    /\ nexternal' = nexternal + 1
    /\ alone' = [w \in Workers |-> FALSE]
    /\ UNCHANGED <<localRef, objects, cwd, self, proc, pc, args, local_sha, is_forced,
                   except_mirrors, todo, err, log, snap, prev, nredeliveries, deployed>>

\* ------------------------------------------------------------------- Next
Next ==
    \/ \E w \in Workers : CallUpdateMirrors(w)
    \/ \E w \in Workers : CallUpdateRefFromMirror(w)
    \/ \E w \in Workers : Redeliver(w)
    \/ \E w \in Workers : UmEnter(w)
    \/ \E w \in Workers : UmClassifyNull(w)
    \/ \E w \in Workers : UmClassifyTest(w)
    \/ \E w \in Workers : UmSkip(w)
    \/ \E w \in Workers : UmPush(w)
    \/ \E w \in Workers : UmReturn(w)
    \/ \E w \in Workers : UrfmEnter(w)
    \/ \E w \in Workers : UrfmLsRemote(w)
    \/ \E w \in Workers : UrfmShowRef(w)
    \/ \E w \in Workers : UrfmFetch(w)
    \/ \E w \in Workers : UrfmUpdateRef(w)
    \/ \E w \in Workers : UrfmDelete(w)
    \/ ExternalPushLocal
    \/ ExternalPushMirror

Spec == Init /\ [][Next]_vars

\* Two webhook processes at once on the same repository and ref: the host
\* does not serialise the events.
InitRace ==
    /\ InitRefs
    /\ deployed = Workers
    /\ self = [w \in Workers |-> "r1"]
    /\ proc = [w \in Workers |-> IF w = "w1" THEN "h1" ELSE "h2"]

NextRace ==
    \/ \E w \in Workers : CallFromWebhook(w)
    \/ \E w \in Workers : UmEnter(w)
    \/ \E w \in Workers : UmClassifyNull(w)
    \/ \E w \in Workers : UmClassifyTest(w)
    \/ \E w \in Workers : UmSkip(w)
    \/ \E w \in Workers : UmPush(w)
    \/ \E w \in Workers : UmReturn(w)
    \/ \E w \in Workers : UrfmEnter(w)
    \/ \E w \in Workers : UrfmLsRemote(w)
    \/ \E w \in Workers : UrfmShowRef(w)
    \/ \E w \in Workers : UrfmFetch(w)
    \/ \E w \in Workers : UrfmUpdateRef(w)
    \/ \E w \in Workers : UrfmDelete(w)

SpecRace == InitRace /\ [][NextRace]_vars

\* A caller hands in an event one of whose SHAs is malformed.
Malformed(oldsha, newsha) == oldsha = BadSHA \/ newsha = BadSHA

\* update_mirrors with a malformed SHA
CallUpdateMirrorsMalformed(w) ==
    \E oldsha \in ArgSHAs, newsha \in ArgSHAs, except \in SUBSET Mirrors :
        /\ Malformed(oldsha, newsha)
        /\ Call(w, "update_mirrors", oldsha, newsha, 0, except)

\* update_ref_from_mirror with a malformed SHA
CallUpdateRefFromMirrorMalformed(w) ==
    \E oldsha \in ArgSHAs, newsha \in ArgSHAs, mirror \in Mirrors :
        /\ Malformed(oldsha, newsha)
        /\ Call(w, "update_ref_from_mirror", oldsha, newsha, mirror, {})

\* One worker, whose callers hand in malformed events only.  What such a
\* call can reach: the entry of either method, and in update_ref_from_mirror
\* the two reads (no local state equals a malformed oldsha, so nothing past
\* line 124 runs).
NextMalformed ==
    \/ \E w \in Workers : CallUpdateMirrorsMalformed(w)
    \/ \E w \in Workers : CallUpdateRefFromMirrorMalformed(w)
    \/ \E w \in Workers : UmEnter(w)
    \/ \E w \in Workers : UrfmEnter(w)
    \/ \E w \in Workers : UrfmLsRemote(w)
    \/ \E w \in Workers : UrfmShowRef(w)

SpecMalformed == Init /\ [][NextMalformed]_vars

\* One host process serves two repositories at once (a threaded webhook
\* server): both workers run in process h1, each on its own Repo object.
InitShared ==
    /\ InitRefs
    /\ deployed = Workers
    /\ self = [w \in Workers |-> IF w = "w1" THEN "r1" ELSE "r2"]
    /\ proc = [w \in Workers |-> "h1"]

\* The webhook of a mirror reports a push truthfully: the mirror's ref is at
\* newsha, and oldsha is what the local copy still has.
CallFromWebhookTruthful(w) ==
    \E mirror \in Mirrors :
        Call(w, "update_ref_from_mirror", localRef[self[w]], mirrorRef[self[w]][mirror],
             mirror, {})

NextShared ==
    \/ \E w \in Workers : CallFromWebhookTruthful(w)
    \/ \E w \in Workers : UmEnter(w)
    \/ \E w \in Workers : UmClassifyNull(w)
    \/ \E w \in Workers : UmClassifyTest(w)
    \/ \E w \in Workers : UmSkip(w)
    \/ \E w \in Workers : UmPush(w)
    \/ \E w \in Workers : UmReturn(w)
    \/ \E w \in Workers : UrfmEnter(w)
    \/ \E w \in Workers : UrfmLsRemote(w)
    \/ \E w \in Workers : UrfmShowRef(w)
    \/ \E w \in Workers : UrfmFetch(w)
    \/ \E w \in Workers : UrfmUpdateRef(w)
    \/ \E w \in Workers : UrfmDelete(w)

SpecShared == InitShared /\ [][NextShared]_vars

\* ================================================================ claims
\* What the claims read off a call's log
Entries(w, op) == {i \in 1..Len(log[w]) : log[w][i].op = op}
CasOps == {"update-ref", "update-ref -d"}
ChangingOps == {"fetch", "push"} \cup CasOps
IsApply(w) == args[w].fn = "update_ref_from_mirror"

\* The refs of w's repository are as they were when w's call started, unless
\* somebody else changed one in between.
Untouched(w) ==
    alone[w] => /\ localRef[self[w]] = snap[w].local
                /\ mirrorRef[self[w]] = snap[w].mirrors

\* C1: when git ls-remote shows the origin mirror's ref at a value other than
\* the claimed newsha (an absent ref counting as the null SHA), the call of
\* update_ref_from_mirror has failed on the assertion of line 112 and has
\* changed nothing: it ran no command but that ls-remote (no fetch, no
\* update-ref, no push), and the local ref and the mirrors are as they were.
C1_RejectsWrongNewSha ==
    \A w \in Workers : \A i \in Entries(w, "ls-remote") :
        (IsApply(w) /\ log[w][i].code = 0 /\ log[w][i].found # args[w].newsha)
        => /\ pc[w] = "failed"
           /\ err[w] = "assert: lied about the new SHA"
           /\ Ops(w) = {"ls-remote"}
           /\ Untouched(w)

C1_Witness ==
    \E w \in Workers :
        /\ IsApply(w) /\ pc[w] = "failed" /\ Len(log[w]) = 1
        /\ log[w][1].op = "ls-remote" /\ log[w][1].code = 0
        /\ args[w].newsha \in Commits /\ log[w][1].found \in Commits
        /\ log[w][1].found # args[w].newsha
        /\ localRef[self[w]] = args[w].oldsha

\* C2: when the remote claim has been verified and git show-ref answers with
\* a local value (absent: the null SHA) that is neither oldsha nor newsha,
\* the call has failed on the assertion of line 121 and no ref has been
\* changed: it ran only ls-remote and show-ref, and the local ref and the
\* mirrors are as they were.
C2_RejectsUnexpectedLocal ==
    \A w \in Workers : \A i \in Entries(w, "show-ref") :
        (IsApply(w) /\ log[w][i].code # ToolFailure
                    /\ log[w][i].found \notin {args[w].oldsha, args[w].newsha})
        => /\ pc[w] = "failed"
           /\ err[w] = "assert: lied about the old SHA"
           /\ Ops(w) = {"ls-remote", "show-ref"}
           /\ Untouched(w)

C2_Witness ==
    \E w \in Workers :
        /\ IsApply(w) /\ pc[w] = "failed" /\ Len(log[w]) = 2
        /\ log[w][1].op = "ls-remote" /\ log[w][1].found = args[w].newsha
        /\ log[w][2].op = "show-ref" /\ log[w][2].code = 0
        /\ log[w][2].found \in Commits \ {args[w].oldsha, args[w].newsha}
        /\ args[w].oldsha \in Commits /\ args[w].newsha \in Commits

\* C3: when the local ref is no longer at the value update_ref_from_mirror
\* read with show-ref at the moment it runs git update-ref (or update-ref
\* -d), that command fails and the call ends in error: the step changes
\* neither the local ref (it keeps the other actor's value) nor any mirror,
\* and the call has sent no push.  Checked with two invocations on the same
\* repository and ref interleaved in every way, and a direct push besides.
C3_RaceFailsCas ==
    [][\A w \in Workers :
        (/\ pc[w] \in {"urfm_update_ref", "urfm_delete"}
         /\ pc'[w] # pc[w]
         /\ localRef[Here(w)] # local_sha[w])
        => /\ pc'[w] = "failed"
           /\ err'[w] = "git update-ref"
           /\ localRef' = localRef
           /\ mirrorRef' = mirrorRef
           /\ "push" \notin Ops(w)']_vars

\* One invocation read the local ref, the other one moved it, and the first
\* one's update-ref failed on it.
C3_Witness ==
    \E w \in Workers, v \in Workers :
        /\ w # v
        /\ pc[w] = "failed" /\ err[w] = "git update-ref" /\ NoToolFailure(w)
        /\ \E i \in Entries(w, "show-ref") : log[w][i].found = local_sha[w]
        /\ \E i \in Entries(w, "update-ref") :
              /\ log[w][i].sha = local_sha[w]
              /\ log[w][i].found # local_sha[w]
              /\ log[w][i].found = localRef[self[w]]
              /\ args[w].newsha \in objects[self[w]]
        /\ \E j \in Entries(v, "update-ref") : log[v][j].code = 0

\* C4: a second call of update_ref_from_mirror with the arguments of a first
\* one that returned (every git command answering, nobody else changing a
\* ref since the first call started) does not fail, runs no command but
\* ls-remote and show-ref (no fetch, no update-ref, no push), leaves the
\* local ref and every mirror as they were, and ends by returning.
C4_Idempotent ==
    \A w \in Workers :
        (/\ IsApply(w)
         /\ prev[w].outcome = "done" /\ prev[w].clean /\ prev[w].alone
         /\ alone[w] /\ NoToolFailure(w))
        => /\ pc[w] \in {"urfm_enter", "urfm_ls_remote", "urfm_show_ref", "done"}
           /\ Ops(w) \subseteq {"ls-remote", "show-ref"}
           /\ Untouched(w)

\* The first call updated the local ref and pushed; the second has returned.
C4_Witness ==
    \E w \in Workers :
        /\ IsApply(w) /\ pc[w] = "done"
        /\ prev[w].outcome = "done" /\ prev[w].clean /\ prev[w].alone
        /\ {"fetch", "update-ref", "push"} \subseteq prev[w].ops
        /\ alone[w] /\ NoToolFailure(w) /\ Len(log[w]) = 2
        /\ localRef[self[w]] = args[w].newsha

\* The transition old -> new discards history: both SHAs name commits and
\* oldsha is not an ancestor of newsha.
Rewrite(oldsha, newsha) ==
    /\ oldsha \in Commits /\ newsha \in Commits
    /\ ~IsAncestor(oldsha, newsha)

PushesTo(w, m) == {i \in Entries(w, "push") : log[w][i].mirror = m}

\* C5: every push of update_mirrors goes to a mirror outside except_mirrors,
\* carries newsha, and is forced exactly when the transition is a Rewrite
\* (so all pushes of a call have the same mode: not forced for a
\* fast-forward, a creation or a deletion); and when the loop has run to its
\* end, every mirror outside except_mirrors has had exactly one push, which
\* succeeded, and is at newsha unless somebody else moved it since.
C5_FanOut ==
    \A w \in Workers :
        /\ \A i \in Entries(w, "push") :
              /\ log[w][i].mirror \in Mirrors \ except_mirrors[w]
              /\ log[w][i].sha = args[w].newsha
              /\ log[w][i].force = Rewrite(args[w].oldsha, args[w].newsha)
        /\ todo[w] > NumMirrors =>
              /\ \A m \in except_mirrors[w] : PushesTo(w, m) = {}
              /\ \A m \in Mirrors \ except_mirrors[w] :
                    /\ Cardinality(PushesTo(w, m)) = 1
                    /\ \A i \in PushesTo(w, m) : log[w][i].code = 0
                    /\ alone[w] => mirrorRef[self[w]][m] = args[w].newsha

\* A Rewrite pushed with --force to both mirrors (scenario B)
C5_Witness ==
    \E w \in Workers :
        /\ args[w].fn = "update_mirrors" /\ pc[w] = "done"
        /\ except_mirrors[w] = {}
        /\ Rewrite(args[w].oldsha, args[w].newsha)
        /\ \A m \in Mirrors : \E i \in PushesTo(w, m) :
              log[w][i].force /\ log[w][i].code = 0 /\ log[w][i].found = args[w].oldsha

\* A fast-forward pushed without --force, one mirror skipped
C5_WitnessQuiet ==
    \E w \in Workers :
        /\ args[w].fn = "update_mirrors" /\ pc[w] = "done"
        /\ except_mirrors[w] = {1}
        /\ args[w].oldsha \in Commits /\ args[w].newsha \in Commits
        /\ args[w].oldsha # args[w].newsha
        /\ \E i \in PushesTo(w, 2) : ~log[w][i].force /\ log[w][i].code = 0

\* C6: a push that fails on one mirror does not keep update_mirrors from
\* pushing to the others: once a call that has pushed at all is over, every
\* mirror outside except_mirrors has had its push attempted.
\* (GitCommand raises on the first push that fails, and nothing in the loop
\* of lines 91-100 catches it: the mirrors after it are never tried.)
C6_FanOutIsolated ==
    \A w \in Workers :
        (Resting(w) /\ Entries(w, "push") # {})
        => \A m \in Mirrors \ except_mirrors[w] : PushesTo(w, m) # {}

\* A value at a copy that the event accounts for neither as old nor as new
Third(w, i) == log[w][i].found \notin {args[w].oldsha, args[w].newsha}

\* A third value that is a commit of its own: not an ancestor of newsha
Unrelated(w, i) ==
    /\ Third(w, i)
    /\ log[w][i].found \in Commits
    /\ ~IsAncestor(log[w][i].found, args[w].newsha)

Passed(w, i, op) == i >= 1 /\ log[w][i].op = op /\ log[w][i].code = 0

\* The i-th command of w's call is the show-ref that found the local ref at
\* oldsha and not at newsha.
ReadOld(w, i) ==
    /\ i >= 1 /\ log[w][i].op = "show-ref"
    /\ log[w][i].sha = args[w].oldsha
    /\ log[w][i].sha # args[w].newsha

\* C8: the commands of a call of update_ref_from_mirror come in the order of
\* the protocol.  ls-remote is the first; show-ref is the second and follows
\* an ls-remote that showed newsha; fetch is the third, only for a newsha
\* that is not null and after a show-ref that found oldsha (and not newsha);
\* update-ref follows the fetch that succeeded, update-ref -d (newsha null)
\* follows that show-ref directly; merge-base and every push come after an
\* update-ref or update-ref -d that succeeded.  So no ref is changed and no
\* push is sent before both checks have passed.
C8_ProtocolOrder ==
    \A w \in Workers : IsApply(w) =>
        \A i \in 1..Len(log[w]) :
            LET op == log[w][i].op IN
            /\ op = "ls-remote" => i = 1
            /\ op = "show-ref" => /\ i = 2
                                  /\ Passed(w, 1, "ls-remote")
                                  /\ log[w][1].sha = args[w].newsha
            /\ op = "fetch" => /\ i = 3
                               /\ ReadOld(w, 2)
                               /\ args[w].newsha # git_nullsha
            /\ op = "update-ref" => /\ i = 4
                                    /\ Passed(w, 3, "fetch")
                                    /\ log[w][i].sha = args[w].oldsha
            /\ op = "update-ref -d" => /\ i = 3
                                       /\ ReadOld(w, 2)
                                       /\ args[w].newsha = git_nullsha
                                       /\ log[w][i].sha = args[w].oldsha
            /\ op \in {"merge-base", "push"} =>
                  \E j \in 1..(i - 1) : /\ log[w][j].op \in CasOps
                                        /\ log[w][j].code = 0
                                        /\ j = IF args[w].newsha = git_nullsha THEN 3 ELSE 4

\* A whole run of the protocol: ls-remote, show-ref, fetch, update-ref, the
\* ancestor test and the push to the other mirror.
C8_Witness ==
    \E w \in Workers :
        /\ IsApply(w) /\ pc[w] = "done" /\ Len(log[w]) = 6
        /\ [i \in 1..6 |-> log[w][i].op]
             = <<"ls-remote", "show-ref", "fetch", "update-ref", "merge-base", "push">>
        /\ \A i \in 1..6 : log[w][i].code = 0

\* C9: when a call of update_ref_from_mirror that found the local ref at
\* oldsha (and not at newsha) has returned, every git command having
\* answered: each mirror but the origin has had exactly one push, of newsha,
\* which succeeded and was forced exactly when the transition is a Rewrite;
\* the origin has had none; and, nobody else having changed a ref meanwhile,
\* the local ref and those mirrors are at newsha.
C9_ApplyThenPropagate ==
    \A w \in Workers :
        (IsApply(w) /\ pc[w] = "done" /\ ReadOld(w, 2) /\ NoToolFailure(w))
        => /\ PushesTo(w, args[w].mirror) = {}
           /\ \A m \in Mirrors \ {args[w].mirror} :
                 /\ Cardinality(PushesTo(w, m)) = 1
                 /\ \A i \in PushesTo(w, m) :
                       /\ log[w][i].sha = args[w].newsha
                       /\ log[w][i].code = 0
                       /\ log[w][i].force = Rewrite(args[w].oldsha, args[w].newsha)
           /\ alone[w] =>
                 /\ localRef[self[w]] = args[w].newsha
                 /\ \A m \in Mirrors \ {args[w].mirror} :
                       mirrorRef[self[w]][m] = args[w].newsha
                 /\ mirrorRef[self[w]][args[w].mirror] = snap[w].mirrors[args[w].mirror]

\* Scenario A: the ref is created from mirror 1; it was absent locally and on
\* mirror 2, which has had a push that was not forced.
C9_Witness ==
    \E w \in Workers :
        /\ IsApply(w) /\ pc[w] = "done" /\ alone[w] /\ NoToolFailure(w)
        /\ args[w].oldsha = git_nullsha /\ args[w].newsha \in Commits
        /\ args[w].mirror = 1
        /\ snap[w].local = git_nullsha /\ snap[w].mirrors[2] = git_nullsha
        /\ localRef[self[w]] = args[w].newsha
        /\ mirrorRef[self[w]][2] = args[w].newsha
        /\ \E i \in PushesTo(w, 2) : ~log[w][i].force

\* C10: for a deletion (newsha null, oldsha not) that the origin confirms (the
\* ref is absent there) with the local ref found at oldsha, the call runs no
\* fetch and no ancestor test; its third command is git update-ref -d with
\* oldsha, the SHA read, as expected value, which succeeds only on a local
\* ref at oldsha; the pushes come after it, to mirrors other than the
\* origin, carry the null SHA and are not forced; and when the call has
\* returned every other mirror has had its push and, nobody else having
\* changed a ref, the ref is gone locally and on those mirrors.
C10_Deletion ==
    \A w \in Workers :
        (/\ IsApply(w)
         /\ args[w].newsha = git_nullsha /\ args[w].oldsha # git_nullsha
         /\ Len(log[w]) >= 2 /\ ReadOld(w, 2))
        => /\ Ops(w) \subseteq {"ls-remote", "show-ref", "update-ref -d", "push"}
           /\ pc[w] # "urfm_fetch" /\ pc[w] # "urfm_update_ref"
           /\ Len(log[w]) >= 3 =>
                 /\ log[w][3].op = "update-ref -d"
                 /\ log[w][3].sha = args[w].oldsha
                 /\ log[w][3].sha = local_sha[w]
                 /\ log[w][3].code = 0 => log[w][3].found = args[w].oldsha
           /\ \A i \in Entries(w, "push") :
                 /\ i > 3 /\ log[w][3].code = 0
                 /\ ~log[w][i].force
                 /\ log[w][i].sha = git_nullsha
                 /\ log[w][i].mirror # args[w].mirror
           /\ pc[w] = "done" =>
                 /\ \A m \in Mirrors \ {args[w].mirror} : PushesTo(w, m) # {}
                 /\ alone[w] =>
                       /\ localRef[self[w]] = git_nullsha
                       /\ \A m \in Mirrors : mirrorRef[self[w]][m] = git_nullsha

\* Scenario C: the ref, deleted on mirror 1, is deleted locally and on mirror 2.
C10_Witness ==
    \E w \in Workers :
        /\ IsApply(w) /\ pc[w] = "done" /\ alone[w]
        /\ args[w].newsha = git_nullsha /\ args[w].oldsha \in Commits
        /\ args[w].mirror = 1
        /\ snap[w].local = args[w].oldsha /\ snap[w].mirrors[2] = args[w].oldsha
        /\ [i \in 1..Len(log[w]) |-> log[w][i].op]
             = <<"ls-remote", "show-ref", "update-ref -d", "push">>
        /\ log[w][3].sha = args[w].oldsha /\ log[w][3].code = 0
        /\ ~log[w][4].force /\ log[w][4].code = 0
        /\ localRef[self[w]] = git_nullsha
        /\ mirrorRef[self[w]][2] = git_nullsha

\* The kinds of transition a null SHA on one side makes
Creation(oldsha, newsha) == oldsha = git_nullsha /\ newsha # git_nullsha
Deletion(oldsha, newsha) == oldsha # git_nullsha /\ newsha = git_nullsha

\* C11: git merge-base --is-ancestor is run only for an event with both SHAs
\* not null; for a Creation and for a Deletion update_mirrors (called
\* directly or from update_ref_from_mirror) runs no ancestor test, leaves
\* is_forced False, and no push of it carries --force.
C11_NullShaNeverForced ==
    \A w \in Workers :
        /\ Entries(w, "merge-base") # {}
              => args[w].oldsha # git_nullsha /\ args[w].newsha # git_nullsha
        /\ (\/ Creation(args[w].oldsha, args[w].newsha)
            \/ Deletion(args[w].oldsha, args[w].newsha))
              => /\ Entries(w, "merge-base") = {}
                 /\ ~is_forced[w]
                 /\ \A i \in Entries(w, "push") : ~log[w][i].force

\* update_mirrors has pushed a new ref to both mirrors, one of which held an
\* older value, without a test and without --force.
C11_Witness ==
    \E w \in Workers :
        /\ args[w].fn = "update_mirrors" /\ pc[w] = "done"
        /\ Creation(args[w].oldsha, args[w].newsha)
        /\ except_mirrors[w] = {}
        /\ Ops(w) = {"push"}
        /\ \A m \in Mirrors : \E i \in PushesTo(w, m) : ~log[w][i].force /\ log[w][i].code = 0
        /\ \E m \in Mirrors : \E i \in PushesTo(w, m) : log[w][i].found \in Commits

\* update_mirrors has pushed a deletion to a mirror that held the ref.
C11_WitnessDeletion ==
    \E w \in Workers :
        /\ args[w].fn = "update_mirrors" /\ pc[w] = "done"
        /\ Deletion(args[w].oldsha, args[w].newsha)
        /\ Ops(w) = {"push"}
        /\ \E i \in Entries(w, "push") :
              ~log[w][i].force /\ log[w][i].code = 0 /\ log[w][i].found = args[w].oldsha

\* C12: a call of update_mirrors or of update_ref_from_mirror with an oldsha
\* or a newsha that is not a 40-character SHA runs no git command at all and
\* never returns: once it has left its entry it has failed.
\* (update_mirrors asserts the lengths on line 86.  update_ref_from_mirror
\* has no such check: it runs git ls-remote, and with a malformed oldsha git
\* show-ref as well, and returns on line 124 when the local ref is at newsha.)
C12_MalformedRejectedFirst ==
    \A w \in Workers :
        Malformed(args[w].oldsha, args[w].newsha)
        => /\ log[w] = <<>>
           /\ pc[w] \in {"um_enter", "urfm_enter", "failed"}

\* What the code does hold to: update_mirrors rejects a malformed event on
\* line 86, before os.chdir and before any git command.
C12_UpdateMirrorsRejects ==
    \A w \in Workers :
        (args[w].fn = "update_mirrors" /\ Malformed(args[w].oldsha, args[w].newsha))
        => /\ log[w] = <<>>
           /\ pc[w] \in {"um_enter", "failed"}
           /\ pc[w] = "failed" => err[w] = "assert: not valid SHAs"
           /\ cwd[proc[w]] = NoDir

\* update_ref_from_mirror has returned from a call with a malformed oldsha.
C12_ReturnsOnMalformed ==
    \E w \in Workers :
        /\ IsApply(w) /\ pc[w] = "done"
        /\ args[w].oldsha = BadSHA
        /\ Len(log[w]) = 2

\* C13: every git command of a call runs in the repository of the Repo object
\* the call was made on (self.local), whatever other calls the same host
\* process is running for other repositories.
\* (os.chdir of lines 87 and 104 sets the working directory of the whole
\* process: a call for another repository that enters between the chdir and
\* a git command of this call makes that command run in the other
\* repository.)
C13_OwnRepository ==
    \A w \in Workers : \A i \in 1..Len(log[w]) : log[w][i].repo = self[w]

\* Where it shows: a call has moved the local ref of the other repository.
C13_WrongRepositoryWritten ==
    \E w \in Workers : \E i \in 1..Len(log[w]) :
        /\ log[w][i].op \in CasOps /\ log[w][i].code = 0
        /\ log[w][i].repo # self[w]

\* The commands update_ref_from_mirror itself runs with check=True
CheckedOps == {"ls-remote", "fetch"} \cup CasOps

\* The exception a failed command of that kind ends the call with
Failure(op) == CASE op = "ls-remote" -> "git ls-remote"
                 [] op = "fetch" -> "git fetch"
                 [] op \in CasOps -> "git update-ref"
                 [] OTHER -> "git push"

\* C14: in a call of update_ref_from_mirror, a checked git command (ls-remote,
\* fetch, update-ref, update-ref -d, and the pushes of line 140 as well) that
\* exits non-zero is the last command of the call, which has ended in the
\* error of that command: nothing runs after it.  After a failed ls-remote
\* or fetch there is no update-ref and no push, and no ref has changed;
\* after a failed update-ref or update-ref -d there is no push, and the
\* refs are as they were.
C14_ToolFailureIsFatal ==
    \A w \in Workers : IsApply(w) =>
        \A i \in 1..Len(log[w]) :
            (log[w][i].op \in CheckedOps \cup {"push"} /\ log[w][i].code # 0)
            => /\ i = Len(log[w])
               /\ pc[w] = "failed"
               /\ err[w] = Failure(log[w][i].op)
               /\ log[w][i].op \in CheckedOps =>
                     /\ "push" \notin Ops(w)
                     /\ \A j \in 1..Len(log[w]) : log[w][j].op \in CasOps => j = i
                     /\ Untouched(w)

\* git fetch failed after both checks had passed: the call is over, the local
\* ref still at oldsha.
C14_Witness ==
    \E w \in Workers :
        /\ IsApply(w) /\ pc[w] = "failed" /\ err[w] = "git fetch"
        /\ Len(log[w]) = 3
        /\ log[w][3].op = "fetch" /\ log[w][3].code = ToolFailure
        /\ args[w].oldsha \in Commits
        /\ localRef[self[w]] = args[w].oldsha
        /\ mirrorRef[self[w]][args[w].mirror] = args[w].newsha

\* git update-ref failed although the ref was at the expected value (the tool
\* itself failed): the call is over and has pushed nothing.
C14_WitnessCas ==
    \E w \in Workers :
        /\ IsApply(w) /\ pc[w] = "failed" /\ err[w] = "git update-ref"
        /\ Len(log[w]) = 4
        /\ log[w][4].op = "update-ref" /\ log[w][4].code = ToolFailure
        /\ log[w][4].found = args[w].oldsha

\* The mirrors a push of w's call has succeeded on
Pushed(w) == {m \in Mirrors : \E i \in PushesTo(w, m) : log[w][i].code = 0}

\* w's call changed the local ref: its update-ref or update-ref -d succeeded.
Applied(w) == \E i \in 1..Len(log[w]) : log[w][i].op \in CasOps /\ log[w][i].code = 0

\* C15: nothing is rolled back.  When a call of update_ref_from_mirror has
\* failed after its update-ref or update-ref -d succeeded (the ancestor test
\* or a push of the propagation failed), then, nobody else having changed a
\* ref since the call started, the local ref is at newsha and every mirror
\* is where the call left it: at its value of before when no push to it
\* succeeded.  And whenever a call that pushes has failed, the mirrors it
\* had pushed to before are at newsha, not back at oldsha.
C15_NoRollback ==
    \A w \in Workers :
        (pc[w] = "failed" /\ alone[w])
        => /\ \A m \in Pushed(w) : mirrorRef[self[w]][m] = args[w].newsha
           /\ (IsApply(w) /\ Applied(w))
              => /\ localRef[self[w]] = args[w].newsha
                 /\ \A m \in Mirrors \ Pushed(w) :
                       mirrorRef[self[w]][m] = snap[w].mirrors[m]

\* The local ref was moved from oldsha to newsha, then the push to the other
\* mirror failed: the local ref stays at newsha, that mirror at oldsha.
C15_Witness ==
    \E w \in Workers :
        /\ IsApply(w) /\ pc[w] = "failed" /\ err[w] = "git push" /\ alone[w]
        /\ Applied(w)
        /\ args[w].oldsha # args[w].newsha
        /\ snap[w].local = args[w].oldsha
        /\ localRef[self[w]] = args[w].newsha
        /\ \E m \in Mirrors \ {args[w].mirror} :
              /\ PushesTo(w, m) # {}
              /\ mirrorRef[self[w]][m] = args[w].oldsha

\* update_mirrors pushed to one mirror, then failed on the next: the first
\* mirror keeps newsha.
C15_WitnessPushed ==
    \E w \in Workers :
        /\ pc[w] = "failed" /\ err[w] = "git push" /\ alone[w]
        /\ args[w].oldsha # args[w].newsha
        /\ \E m \in Pushed(w) :
              /\ snap[w].mirrors[m] = args[w].oldsha
              /\ mirrorRef[self[w]][m] = args[w].newsha

\* C16: the ancestor test is run for events with both SHAs not null only, and
\* decides the mode of every push of the call.  An exit code other than 0
\* and 1, or any output, ends the call in error on the assertions of lines
\* 26-27 with the test as its last command: no push follows.  After exit
\* code 0 is_forced is False and no push carries --force; after exit code 1
\* is_forced is True and every push carries --force.
C16_AncestorTestDecides ==
    \A w \in Workers : \A i \in Entries(w, "merge-base") :
        LET code == log[w][i].code
            rejected == err[w] \in {"assert: not out", "assert: code in (0, 1)"}
        IN /\ args[w].oldsha # git_nullsha /\ args[w].newsha # git_nullsha
           /\ Cardinality(Entries(w, "merge-base")) = 1
           /\ code \notin {0, 1} => rejected
           /\ rejected => /\ pc[w] = "failed"
                          /\ i = Len(log[w])
                          /\ Entries(w, "push") = {}
           /\ ~rejected => /\ pc[w] # "um_classify"
                           /\ is_forced[w] = (code = 1)
                           /\ \A j \in Entries(w, "push") :
                                 j > i /\ log[w][j].force = (code = 1)

\* The test failed for want of the objects (update_mirrors called for commits
\* the local repository does not have): no mirror was pushed to.
C16_Witness ==
    \E w \in Workers : \E i \in Entries(w, "merge-base") :
        /\ pc[w] = "failed" /\ err[w] = "assert: code in (0, 1)"
        /\ log[w][i].code = ToolFailure
        /\ args[w].fn = "update_mirrors"
        /\ args[w].newsha \notin objects[self[w]]
        /\ Entries(w, "push") = {}
        /\ Untouched(w)

\* Exit code 1: both mirrors pushed with --force.
C16_WitnessForced ==
    \E w \in Workers : \E i \in Entries(w, "merge-base") :
        /\ pc[w] = "done" /\ log[w][i].code = 1
        /\ \A m \in Mirrors \ except_mirrors[w] : \E j \in PushesTo(w, m) : log[w][j].force

\* Exit code 0: pushed without --force.
C16_WitnessQuiet ==
    \E w \in Workers : \E i \in Entries(w, "merge-base") :
        /\ pc[w] = "done" /\ log[w][i].code = 0
        /\ \E j \in Entries(w, "push") : ~log[w][j].force /\ log[w][j].code = 0

\* C17: with two calls of update_ref_from_mirror on the same repository
\* interleaved in every way, each step that changes the local ref is the
\* update-ref or update-ref -d of a call, and takes the ref from that call's
\* oldsha to its newsha, the two being different; and the expected old value
\* every update-ref or update-ref -d is given is the oldsha of its call and
\* not its newsha.
C17_LocalMovesOldToNew ==
    [][/\ \A r \in Repos :
             localRef'[r] # localRef[r]
             => \E w \in Workers :
                   /\ IsApply(w) /\ self[w] = r
                   /\ pc[w] \in {"urfm_update_ref", "urfm_delete"}
                   /\ Len(log'[w]) = Len(log[w]) + 1
                   /\ localRef[r] = args[w].oldsha
                   /\ localRef'[r] = args[w].newsha
                   /\ args[w].oldsha # args[w].newsha
       /\ \A w \in Workers :
             (/\ Len(log'[w]) = Len(log[w]) + 1
              /\ log'[w][Len(log'[w])].op \in CasOps)
             => /\ log'[w][Len(log'[w])].sha = args[w].oldsha
                /\ log'[w][Len(log'[w])].sha # args[w].newsha]_vars

\* Two interleaved calls have both moved the local ref, the second one from
\* where the first one had put it.
C17_Witness ==
    \E w \in Workers, v \in Workers :
        /\ w # v /\ IsApply(w) /\ IsApply(v)
        /\ \E i \in 1..Len(log[w]), j \in 1..Len(log[v]) :
              /\ log[w][i].op \in CasOps /\ log[w][i].code = 0
              /\ log[v][j].op \in CasOps /\ log[v][j].code = 0
              /\ log[w][i].found = args[w].oldsha
              /\ log[v][j].found = args[v].oldsha
              /\ args[v].oldsha = args[w].newsha
              /\ localRef[self[v]] = args[v].newsha

\* The call before this one (same event) moved the local ref and then failed
\* in the propagation: it ran the ancestor test or a push, and failed.
PrevFailedPropagating(w) ==
    /\ prev[w].outcome = "failed"
    /\ prev[w].ops \cap {"merge-base", "push"} # {}

\* C18: when a call of update_ref_from_mirror has moved the local ref and
\* then failed during the propagation, a second call with the same event
\* (every git command answering, nobody else having changed a ref) finds the
\* local ref at newsha and returns on line 124: it runs ls-remote and
\* show-ref only, does not fail, and leaves every ref as it was, so a mirror
\* the first call did not reach stays where it is.
C18_RedeliverySkipsPropagation ==
    \A w \in Workers :
        (/\ IsApply(w) /\ PrevFailedPropagating(w)
         /\ prev[w].alone /\ alone[w] /\ NoToolFailure(w))
        => /\ pc[w] \in {"urfm_enter", "urfm_ls_remote", "urfm_show_ref", "done"}
           /\ Ops(w) \subseteq {"ls-remote", "show-ref"}
           /\ localRef[self[w]] = args[w].newsha
           /\ Untouched(w)

\* The second call has returned; a mirror other than the origin is still not
\* at newsha.
C18_Witness ==
    \E w \in Workers :
        /\ IsApply(w) /\ PrevFailedPropagating(w) /\ "push" \in prev[w].ops
        /\ prev[w].alone /\ alone[w] /\ NoToolFailure(w)
        /\ pc[w] = "done" /\ Len(log[w]) = 2
        /\ localRef[self[w]] = args[w].newsha
        /\ \E m \in Mirrors \ {args[w].mirror} : mirrorRef[self[w]][m] # args[w].newsha

\* Worker w is inside update_mirrors (lines 86-100) and takes a step.
UpdateMirrorsStep(w) ==
    /\ pc[w] \in {"um_enter", "um_classify", "um_push"}
    /\ <<pc[w], log[w], todo[w]>>' # <<pc[w], log[w], todo[w]>>

\* C19: a step of update_mirrors, whether the call ends well or in error,
\* changes no local ref and no object store; the only thing it can change is
\* the ref on a mirror of its own repository that is not in except_mirrors,
\* which it sets to newsha.  The Repo object (self, and with it the mirrors
\* it lists) stays the same.
C19_UpdateMirrorsFrame ==
    [][\A w \in Workers :
          UpdateMirrorsStep(w)
          => /\ localRef' = localRef
             /\ objects' = objects
             /\ self' = self
             /\ except_mirrors'[w] = except_mirrors[w]
             /\ \A r \in Repos, m \in Mirrors :
                   mirrorRef'[r][m] # mirrorRef[r][m]
                   => /\ r = self[w]
                      /\ m \notin except_mirrors[w]
                      /\ mirrorRef'[r][m] = args[w].newsha]_vars

\* update_mirrors has returned: the skipped mirror and the local ref are
\* where they were, not at newsha; the other mirror has moved to newsha.
C19_Witness ==
    \E w \in Workers :
        /\ args[w].fn = "update_mirrors" /\ pc[w] = "done" /\ alone[w]
        /\ except_mirrors[w] = {1}
        /\ mirrorRef[self[w]][1] = snap[w].mirrors[1]
        /\ mirrorRef[self[w]][1] # args[w].newsha
        /\ localRef[self[w]] = snap[w].local
        /\ localRef[self[w]] # args[w].newsha
        /\ snap[w].mirrors[2] # args[w].newsha
        /\ mirrorRef[self[w]][2] = args[w].newsha

\* update_mirrors has failed on a push: the same frame.
C19_WitnessFailed ==
    \E w \in Workers :
        /\ args[w].fn = "update_mirrors" /\ pc[w] = "failed" /\ err[w] = "git push"
        /\ alone[w] /\ except_mirrors[w] = {1}
        /\ mirrorRef[self[w]] = snap[w].mirrors
        /\ localRef[self[w]] = snap[w].local

\* C20: the assertion of line 137 never fails.  Whenever a call is about to
\* run the delete branch (newsha is the null SHA), local_sha is not the null
\* SHA: it is the oldsha of the event, a commit; a local ref that is absent
\* equals newsha and has made the call return on line 124.
C20_DeleteAssertHolds ==
    \A w \in Workers :
        /\ err[w] # "assert: nothing to do"
        /\ pc[w] = "urfm_delete"
              => /\ args[w].newsha = git_nullsha
                 /\ DeleteAssertOk(local_sha[w])
                 /\ local_sha[w] = args[w].oldsha
        /\ \A i \in Entries(w, "update-ref -d") : log[w][i].sha # git_nullsha

\* A call stands before the delete branch, the local ref read at a commit.
C20_Witness ==
    \E w \in Workers :
        /\ pc[w] = "urfm_delete"
        /\ local_sha[w] \in Commits
        /\ localRef[self[w]] = local_sha[w]

\* A deletion event met a local ref that is absent already, and returned.
C20_WitnessAbsent ==
    \E w \in Workers :
        /\ IsApply(w) /\ pc[w] = "done" /\ NoToolFailure(w)
        /\ args[w].newsha = git_nullsha /\ args[w].oldsha \in Commits
        /\ local_sha[w] = git_nullsha /\ Len(log[w]) = 2

====
